---- MODULE Spec2Model ----
(***************************************************************************)
(* Optimal experimental design (oed_fcs): the design constructors DDesign  *)
(* and PointPredictionDesign, the Pi-optimal design and the metric         *)
(* StdParameterEstimations, over a grid of integer design coordinates.     *)
(* Real numbers are exact fractions <<numerator, denominator>> with a      *)
(* positive denominator, so that every comparison the program makes is     *)
(* decided exactly.                                                        *)
(***************************************************************************)
EXTENDS Integers, Sequences, FiniteSets, TLC

VARIABLES
    kind,          \* the class under construction: its name property
    args,          \* the arguments the constructor is called with
    pc,            \* "new", "constructed", "raised", "recomputed"
    design,        \* self._design, a sequence of rows (<<>> before it is set)
    minimizerLog,  \* one entry per call of the minimizer: what it got and returned
    spread,        \* point prediction: the latest spread computed at each point
    lastRead,      \* what the last read of a property returned
    test_experiment, \* the Latin hypercube a test compares the design with
    metric,        \* what StdParameterEstimations.calculate returned
    result         \* what the calls of the parametric function returned

vars == <<kind, args, pc, design, minimizerLog, spread, lastRead,
          test_experiment, metric, result>>

----------------------------------------------------------------------------
(* Bounds of the model *)

\* design coordinates are 0..MaxCoord
MaxCoord == 1
\* the flat vector handed to the minimizer has at most MaxFlatLen components
MaxFlatLen == 4
\* a previous experiment has at most MaxPrevCells entries (rows * columns)
MaxPrevCells == 2
\* parameter samples drawn by one calculate_quantile call
SampleSize == 2
\* the Pi-optimal design and the Latin hypercubes use coordinates 0..MaxCoordPi
MaxCoordPi == 2
\* estimations handed to the metric: at most MaxEstimations, each 0..MaxEstimate
MaxEstimations == 6
MaxEstimate == 2
\* the aging model: parameters and inputs are 1..MaxTheta, the array t has
\* at most MaxTimePoints entries, parameter_index is -1..MaxParameterIndex
MaxTheta == 2
MaxTimePoints == 2
MaxParameterIndex == 3

(* Program constants *)

\* dimension of a design point
Dimension == 2
\* noise standard deviation of the statistical model
Sigma == 1
\* alpha = 0.9 = AlphaNum / AlphaDen
AlphaNum == 9
AlphaDen == 10

Coord == 0..MaxCoord

\* a vector of length len over the grid
Vectors(len) == [1..len -> Coord]

----------------------------------------------------------------------------
(* Exact fractions *)

Frac(n, d) == <<n, d>>

FracLeq(a, b) == a[1] * b[2] <= b[1] * a[2]

FracNeg(a) == <<-a[1], a[2]>>

----------------------------------------------------------------------------
(* numpy *)

RECURSIVE SumSeq(_)
SumSeq(s) == IF s = <<>> THEN 0 ELSE Head(s) + SumSeq(Tail(s))

\* np.repeat(b, n), which the code does not use: each entry of b n times
Repeat(b, n) == [k \in 1..(Len(b) * n) |-> b[((k - 1) \div n) + 1]]

\* np.array(b.tolist() * n): the list b repeated n times, end to end
Tile(b, n) == [k \in 1..(Len(b) * n) |-> b[((k - 1) % Len(b)) + 1]]

\* x.reshape(n, d): row-major
Reshape(x, n, d) == [r \in 1..n |-> [c \in 1..d |-> x[(r - 1) * d + c]]]

\* np.concatenate((a, b), axis=0)
Concatenate(a, b) == a \o b

\* np.array: the sequence s with its entries computed once
Array(s) == SubSeq(s, 1, Len(s))

\* the matrix m without row i and column j
Minor(m, i, j) ==
    LET k == Len(m)
    IN  [r \in 1..(k - 1) |->
            [c \in 1..(k - 1) |->
                m[IF r < i THEN r ELSE r + 1][IF c < j THEN c ELSE c + 1]]]

\* np.linalg.det, by expansion along the first row
RECURSIVE Determinant(_)
Determinant(m) ==
    IF Len(m) = 1
    THEN m[1][1]
    ELSE SumSeq([j \in 1..Len(m) |->
                    (IF j % 2 = 1 THEN 1 ELSE -1) * m[1][j]
                    * Determinant(Minor(m, 1, j))])

----------------------------------------------------------------------------
(* The statistical model: Gaussian noise around the linear function *)

\* LinearFunction.partial_derivative(theta, x, index):
\* f(theta, x) = theta[0] + theta[1:] . x
PartialDerivative(theta, x, index) == IF index = 0 THEN 1 ELSE x[index]

\* LinearFunction.__call__(theta, x); theta is 1-indexed here
LinearFunction(theta, x) ==
    theta[1] + SumSeq([i \in 1..Len(x) |-> theta[i + 1] * x[i]])

\* calculate_fisher_information_matrix(theta, x0):
\* (1 / sigma^2) * sum over the design points of J^T J, where J is the row
\* of the partial derivatives at the design point
FisherInformationMatrix(theta, x0) ==
    Array([i \in 1..Len(theta) |->
        Array([j \in 1..Len(theta) |->
            SumSeq([r \in 1..Len(x0) |->
                PartialDerivative(theta, x0[r], i - 1)
                * PartialDerivative(theta, x0[r], j - 1)])
            \div (Sigma * Sigma)])])

\* calculate_determinant_fisher_information_matrix(theta, x0)
DeterminantFIM(theta, x0) == Determinant(FisherInformationMatrix(theta, x0))

----------------------------------------------------------------------------
(* The minimizer *)

\* the vectors within the bounds the minimizer is given
Box(lower_bounds, upper_bounds) ==
    LET least == CHOOSE v \in {lower_bounds[k] : k \in DOMAIN lower_bounds} :
                     \A k \in DOMAIN lower_bounds : v <= lower_bounds[k]
        most == CHOOSE v \in {upper_bounds[k] : k \in DOMAIN upper_bounds} :
                    \A k \in DOMAIN upper_bounds : v >= upper_bounds[k]
    IN  {x \in [1..Len(lower_bounds) -> least..most] :
            \A k \in 1..Len(lower_bounds) :
                lower_bounds[k] <= x[k] /\ x[k] <= upper_bounds[k]}

\* the candidate sets a minimizer may evaluate: every vector within the
\* bounds ("exhaustive"), one vector ("single"), or one or two ("pair")
Considered(strategy, lower_bounds, upper_bounds) ==
    LET box == Box(lower_bounds, upper_bounds)
    IN  CASE strategy = "exhaustive" -> {box}
          [] strategy = "single" -> {{x} : x \in box}
          [] strategy = "pair" -> {{x, y} : x \in box, y \in box}

\* the vectors a minimizer may return: among those it evaluated, one whose
\* objective value was the least
MinimizerReturns(value) ==
    LET evaluated == {<<x, value[x]>> : x \in DOMAIN value}
        least == CHOOSE e \in evaluated :
                     \A f \in evaluated : FracLeq(e[2], f[2])
    IN  {e[1] : e \in {f \in evaluated : FracLeq(f[2], least[2])}}

----------------------------------------------------------------------------
(* Experiments *)

None == [type |-> "NoneType"]

Experiment(rows) == [type |-> "Experiment", experiment |-> rows]

\* the experiments of at most MaxPrevCells entries in d dimensions
Experiments(d) ==
    {Experiment(rows) :
        rows \in UNION {[1..p -> Vectors(d)] :
                            p \in {q \in 1..MaxPrevCells : q * d <= MaxPrevCells}}}

\* bounds pairs with lower[i] <= upper[i]
BoundsPairs(d) ==
    {b \in Vectors(d) \X Vectors(d) : \A i \in 1..d : b[1][i] <= b[2][i]}

----------------------------------------------------------------------------
(* DDesign *)

DDesignArgs ==
    UNION {
        {[number_designs |-> n,
          lower_bounds_design |-> b[1],
          upper_bounds_design |-> b[2],
          initial_theta |-> [i \in 1..(d + 1) |-> 1],
          minimizer |-> m,
          previous_experiment |-> prev] :
            n \in {k \in 1..MaxFlatLen : k * d <= MaxFlatLen},
            b \in BoundsPairs(d),
            m \in {"exhaustive", "single"},
            prev \in {None} \cup Experiments(d)} :
        d \in 1..Dimension}

\* the determinant itself, without the sign the lambda puts before it
DDesignObjectiveUnnegated(a, x) ==
    Frac(DeterminantFIM(
             a.initial_theta,
             Concatenate(a.previous_experiment.experiment,
                         Reshape(x, a.number_designs, Len(a.lower_bounds_design)))),
         1)

\* the lambda handed to the minimizer, d_design.py lines 60-64
DDesignObjective(a, x) ==
    FracNeg(Frac(DeterminantFIM(
                     a.initial_theta,
                     Concatenate(a.previous_experiment.experiment,
                                 Reshape(x, a.number_designs,
                                         Len(a.lower_bounds_design)))),
                 1))

\* the new rows alone, as a design that drops the previous experiment would be
DDesignResultWithoutPrevious(a, returned) ==
    Reshape(returned, a.number_designs, Len(a.lower_bounds_design))

\* the new rows before the previous rows, the other order of concatenation
DDesignResultSwapped(a, returned) ==
    Concatenate(Reshape(returned, a.number_designs, Len(a.lower_bounds_design)),
                a.previous_experiment.experiment)

\* the value assigned to self._design, given what the minimizer returned
DDesignResult(a, returned) ==
    Concatenate(a.previous_experiment.experiment,
                Reshape(returned, a.number_designs, Len(a.lower_bounds_design)))

\* DDesign.__init__
DDesignInit ==
    /\ pc = "new"
    /\ kind = "D-opt"
    /\ IF args.previous_experiment = None
       THEN \* AttributeError: 'NoneType' object has no attribute 'experiment',
            \* raised while the arguments of np.concatenate are evaluated
            /\ pc' = "raised"
            /\ UNCHANGED <<design, minimizerLog>>
       ELSE LET lower == Tile(args.lower_bounds_design, args.number_designs)
                upper == Tile(args.upper_bounds_design, args.number_designs)
            IN  \E considered \in Considered(args.minimizer, lower, upper) :
                    LET value == [x \in considered |-> DDesignObjective(args, x)]
                    IN  \E returned \in MinimizerReturns(value) :
                            /\ minimizerLog' = Append(minimizerLog,
                                   [lower_bounds |-> lower,
                                    upper_bounds |-> upper,
                                    value |-> value,
                                    returned |-> returned])
                            /\ design' = DDesignResult(args, returned)
                            /\ pc' = "constructed"
    /\ UNCHANGED <<result, test_experiment, metric, kind, args, spread, lastRead>>

----------------------------------------------------------------------------
(* The parametric function with uncertainty *)

\* the parameter vectors the probability measure is sampled from
ThetaSupport(d) == {[i \in 1..(d + 1) |-> t] : t \in {0, 1}}

\* the sample sets one calculate_quantile call may draw
Draws(d) == [1..SampleSize -> ThetaSupport(d)]

\* the k-th smallest entry of the sequence s (k from 1)
OrderStatistic(s, k) ==
    CHOOSE v \in {s[i] : i \in DOMAIN s} :
        /\ Cardinality({i \in DOMAIN s : s[i] < v}) < k
        /\ Cardinality({i \in DOMAIN s : s[i] <= v}) >= k

\* np.quantile(samples, alpha), linear interpolation between the order
\* statistics around position (len - 1) * alpha; alpha = a[1] / a[2]
EmpiricalQuantile(samples, a) ==
    LET h == (Len(samples) - 1) * a[1]
        lo == h \div a[2]
        rem == h % a[2]
        low == OrderStatistic(samples, lo + 1)
        high == IF rem = 0 THEN low ELSE OrderStatistic(samples, lo + 2)
    IN  Frac(low * a[2] + (high - low) * rem, a[2])

\* calculate_quantile(x, alpha), for the parameter samples it drew
CalculateQuantile(x, a, draw) ==
    EmpiricalQuantile([s \in 1..Len(draw) |-> LinearFunction(draw[s], x)], a)

OneMinus(a) == Frac(a[2] - a[1], a[2])

\* what calculate_quantile(x, alpha) may return, over the samples it may draw
Quantiles(x, a) == {CalculateQuantile(x, a, draw) : draw \in Draws(Len(x))}

\* upper - lower, two fractions of the same denominator
FracSub(upper, lower) == Frac(upper[1] - lower[1], upper[2])

----------------------------------------------------------------------------
(* PointPredictionDesign *)

PointPredictionDesignArgs ==
    UNION {
        {[lower_bounds_design |-> b[1],
          upper_bounds_design |-> b[2],
          minimizer |-> "pair",
          alpha |-> Frac(AlphaNum, AlphaDen)] :
            b \in BoundsPairs(d)} :
        d \in 1..Dimension}

\* the spread itself, without the sign the lambda puts before it
PointPredictionObjectiveUnnegated(upper, lower) == FracSub(upper, lower)

\* the lambda handed to the minimizer, point_prediction_design.py lines 24-31,
\* for what its two calculate_quantile calls returned (the function is
\* scalar: np.sum adds one component)
PointPredictionObjective(upper, lower) == FracNeg(FracSub(upper, lower))

\* what one evaluation of the objective at x may compute: the spread
\* quantile(x, alpha) - quantile(x, 1 - alpha), each quantile from a draw of
\* its own, and the objective value
Evaluations(x, a) ==
    {[spread |-> FracSub(upper, lower),
      objective |-> PointPredictionObjective(upper, lower)] :
        upper \in Quantiles(x, a), lower \in Quantiles(x, OneMinus(a))}

\* one evaluation at each point of the set S
RECURSIVE EvaluationsOn(_, _)
EvaluationsOn(S, a) ==
    IF S = {}
    THEN {<<>>}
    ELSE LET x == CHOOSE y \in S : TRUE
         IN  {(x :> e) @@ ev :
                 e \in Evaluations(x, a), ev \in EvaluationsOn(S \ {x}, a)}

\* the returned vector as a column, reshape(len(lower_bounds_design), 1)
PointPredictionResultColumn(a, returned) ==
    Reshape(returned, Len(a.lower_bounds_design), 1)

\* the value assigned to self._design, given what the minimizer returned
PointPredictionResult(a, returned) ==
    Reshape(returned, 1, Len(a.lower_bounds_design))

\* PointPredictionDesign.__init__
PointPredictionDesignInit ==
    /\ pc = "new"
    /\ kind = "point prediction"
    /\ \E considered \in Considered(args.minimizer, args.lower_bounds_design,
                                    args.upper_bounds_design) :
         \E ev \in EvaluationsOn(considered, args.alpha) :
            LET value == [x \in considered |-> ev[x].objective]
            IN  \E returned \in MinimizerReturns(value) :
                    /\ minimizerLog' = Append(minimizerLog,
                           [lower_bounds |-> args.lower_bounds_design,
                            upper_bounds |-> args.upper_bounds_design,
                            value |-> value,
                            returned |-> returned])
                    /\ spread' = [x \in considered |-> ev[x].spread]
                    /\ design' = PointPredictionResult(args, returned)
                    /\ pc' = "constructed"
    /\ UNCHANGED <<result, test_experiment, metric, kind, args, lastRead>>

\* a caller computes the spread at the point of the design again: the
\* calculate_quantile calls draw parameter samples of their own
RecomputeSpread ==
    /\ pc = "constructed"
    /\ kind = "point prediction"
    /\ \E e \in Evaluations(minimizerLog[1].returned, args.alpha) :
            spread' = [spread EXCEPT ![minimizerLog[1].returned] = e.spread]
    /\ pc' = "recomputed"
    /\ UNCHANGED <<result, test_experiment, metric, kind, args, design, minimizerLog, lastRead>>

----------------------------------------------------------------------------
(* LatinHypercube *)

\* the grid coordinates in stratum k (from 0) of the n equal strata of
\* [lower, upper]; a coordinate on the edge of two strata stands for the
\* points of either stratum next to it
Stratum(k, n, lower, upper) ==
    {v \in lower..upper :
        /\ k * (upper - lower) <= n * (v - lower)
        /\ n * (v - lower) <= (k + 1) * (upper - lower)}

StrataOrders(n) ==
    {f \in [1..n -> 1..n] : \A i \in 1..n : \E j \in 1..n : f[j] = i}

\* the sequences with s[r] in sets[r]
RECURSIVE Product(_)
Product(sets) ==
    IF sets = <<>>
    THEN {<<>>}
    ELSE {<<h>> \o t : h \in Head(sets), t \in Product(Tail(sets))}

\* LatinHypercube(number_designs, lower_bounds_design, upper_bounds_design)
\* .experiment for d <= 2: each coordinate has one point in each of the
\* number_designs strata of its range. The rows are listed by the stratum of
\* their first coordinate (the Fisher information matrix is a sum over the
\* rows); perm gives the strata of the second coordinate.
LatinHypercube(number_designs, lower, upper) ==
    LET n == number_designs
        first == [r \in 1..n |-> Stratum(r - 1, n, lower[1], upper[1])]
    IN  IF Len(lower) = 1
        THEN Product([r \in 1..n |-> {<<v>> : v \in first[r]}])
        ELSE UNION {
                Product([r \in 1..n |->
                    {<<v, w>> : v \in first[r],
                                w \in Stratum(perm[r] - 1, n, lower[2], upper[2])}]) :
                perm \in StrataOrders(n)}

----------------------------------------------------------------------------
(* PiDesign *)

\* calculate_cramer_rao_lower_bound(x0, theta).diagonal()[index], for an
\* invertible Fisher information matrix: the entry of its inverse, the
\* cofactor over the determinant
CramerRaoDiagonal(theta, x0, index) ==
    LET fim == FisherInformationMatrix(theta, x0)
    IN  Frac(Determinant(Minor(fim, index + 1, index + 1)), Determinant(fim))

\* whether the Fisher information matrix of x0 has an inverse
Invertible(theta, x0) == DeterminantFIM(theta, x0) # 0

\* the large finite value that stands for a singular matrix
SingularPenalty == 1000000

\* the entry with the sign of a maximization, which the Pi-optimal design
\* does not use
PiDesignObjectiveNegated(a, x) ==
    LET x0 == Concatenate(a.previous_experiment.experiment,
                          Reshape(x, a.number_designs, Len(a.lower_bounds_design)))
    IN  IF Invertible(a.initial_theta, x0)
        THEN FracNeg(CramerRaoDiagonal(a.initial_theta, x0, a.index))
        ELSE Frac(SingularPenalty, 1)

\* the objective of the Pi-optimal design: the index-th diagonal entry of the
\* Cramer-Rao lower bound of the previous rows followed by the candidates
PiDesignObjective(a, x) ==
    LET x0 == Concatenate(a.previous_experiment.experiment,
                          Reshape(x, a.number_designs, Len(a.lower_bounds_design)))
    IN  IF Invertible(a.initial_theta, x0)
        THEN CramerRaoDiagonal(a.initial_theta, x0, a.index)
        ELSE Frac(SingularPenalty, 1)

\* the arguments of the test: bounds 0 and the top of the grid in every
\* dimension, a Latin hypercube of number_designs points as previous experiment
PiDesignArgs ==
    UNION {
        UNION {
            {[number_designs |-> n,
              lower_bounds_design |-> [c \in 1..d |-> 0],
              upper_bounds_design |-> [c \in 1..d |-> MaxCoordPi],
              initial_theta |-> [i \in 1..(d + 1) |-> 1],
              minimizer |-> "exhaustive",
              previous_experiment |-> Experiment(prev),
              index |-> index] :
                index \in 0..d,
                prev \in LatinHypercube(n, [c \in 1..d |-> 0],
                                        [c \in 1..d |-> MaxCoordPi])} :
            n \in {k \in 1..MaxFlatLen : k * d <= MaxFlatLen}} :
        d \in 1..Dimension}

\* PiDesign.__init__
PiDesignInit ==
    /\ pc = "new"
    /\ kind = "pi"
    /\ LET lower == Tile(args.lower_bounds_design, args.number_designs)
           upper == Tile(args.upper_bounds_design, args.number_designs)
       IN  \E considered \in Considered(args.minimizer, lower, upper) :
               LET value == [x \in considered |-> PiDesignObjective(args, x)]
               IN  \E returned \in MinimizerReturns(value) :
                       /\ minimizerLog' = Append(minimizerLog,
                              [lower_bounds |-> lower,
                               upper_bounds |-> upper,
                               value |-> value,
                               returned |-> returned])
                       /\ design' = DDesignResult(args, returned)
                       /\ pc' = "constructed"
    /\ UNCHANGED <<result, test_experiment, metric, kind, args, spread, lastRead>>

\* the test draws a Latin hypercube of 2 * number_designs points
DrawLatinHypercube ==
    /\ pc = "constructed"
    /\ kind = "pi"
    /\ test_experiment = <<>>
    /\ \E rows \in LatinHypercube(2 * args.number_designs,
                                  args.lower_bounds_design,
                                  args.upper_bounds_design) :
            test_experiment' = rows
    /\ UNCHANGED <<result, metric, kind, args, pc, design, minimizerLog, spread, lastRead>>

----------------------------------------------------------------------------
(* StdParameterEstimations *)

\* the square of the population standard deviation (np.std with ddof=0): the
\* sum of the squared deviations from the mean, over n
StdSquaredPopulation(estimations) ==
    LET n == Len(estimations)
        total == SumSeq(estimations)
    IN  Frac(SumSeq([i \in 1..n |->
                (n * estimations[i] - total) * (n * estimations[i] - total)]),
             n * n * n)

\* the square of StdParameterEstimations.calculate(estimations_of_parameter):
\* the sum of the squared deviations from the mean, over n - 1; the mean is
\* total / n, so that a deviation is (n * x - total) / n
StdSquared(estimations) ==
    LET n == Len(estimations)
        total == SumSeq(estimations)
    IN  Frac(SumSeq([i \in 1..n |->
                (n * estimations[i] - total) * (n * estimations[i] - total)]),
             n * n * (n - 1))

\* metric.calculate(estimations_of_parameter=...)
Calculate ==
    /\ pc = "new"
    /\ kind = "Estimated standard deviation of parameter estimations"
    /\ metric' = [squared |-> StdSquared(args.estimations_of_parameter)]
    /\ pc' = "calculated"
    /\ UNCHANGED <<result, test_experiment, kind, args, design, minimizerLog, spread, lastRead>>

----------------------------------------------------------------------------
(* The properties of an Experiment *)

\* the name property
ReadName ==
    /\ pc \in {"constructed", "recomputed"}
    /\ lastRead' = [property |-> "name", name |-> kind]
    /\ UNCHANGED <<result, test_experiment, metric, kind, args, pc, design, minimizerLog, spread>>

\* a lazy experiment property, which would run the minimizer on the read
ReadExperimentLazy ==
    /\ pc \in {"constructed", "recomputed"}
    /\ minimizerLog' = Append(minimizerLog, minimizerLog[1])
    /\ lastRead' = [property |-> "experiment", experiment |-> design]
    /\ UNCHANGED <<result, test_experiment, metric, kind, args, pc, design, spread>>

\* the experiment property: return self._design
ReadExperiment ==
    /\ pc \in {"constructed", "recomputed"}
    /\ lastRead' = [property |-> "experiment", experiment |-> design]
    /\ UNCHANGED <<result, test_experiment, metric, kind, args, pc, design, minimizerLog, spread>>

----------------------------------------------------------------------------
(* AgingModel *)

\* a numpy array of one axis
Ndarray(entries) == [type |-> "ndarray", entries |-> entries]

\* Aging_Model.__init__: the default of t
DefaultT == <<7, 35, 63, 119, 175, 231>>

\* Aging_Model.Calendar_Aging(theta, x): three scalars times
\* (self.t * (24 * 3600)) ** theta[2], one entry per entry of t. An entry is
\* kept as the term of its operands: its value is a power and an exponential
\* of them
Calendar_Aging(theta, x, t) ==
    Ndarray([k \in 1..Len(t) |->
                [x_ref_cal |-> theta[3],
                 d_SoC_cal |-> <<x[1], theta[1]>>,
                 d_T_cal |-> <<x[2], theta[2]>>,
                 days |-> t[k]]])

\* Aging_Model.partial_derivative_Calendar_Aging(theta, x, index): for index
\* 0, 1 and 2 the array -Calendar_Aging(theta, x) times a factor, which is a
\* scalar for 0 and 1 and an array over t for 2; for any other index the
\* function ends without a return statement
partial_derivative_Calendar_Aging(theta, x, t, index) ==
    LET Q_loss_cal == Calendar_Aging(theta, x, t).entries
    IN  IF index = 0
        THEN Ndarray([k \in 1..Len(t) |->
                [minus |-> Q_loss_cal[k], log |-> x[1], over |-> theta[1]]])
        ELSE IF index = 1
        THEN Ndarray([k \in 1..Len(t) |->
                [minus |-> Q_loss_cal[k], inverse |-> x[2]]])
        ELSE IF index = 2
        THEN Ndarray([k \in 1..Len(t) |->
                [minus |-> Q_loss_cal[k], log |-> t[k]]])
        ELSE None

\* the arrays t of an Aging_Model
TimeArrays ==
    {DefaultT} \cup UNION {[1..n -> {DefaultT[1], DefaultT[2]}] : n \in 1..MaxTimePoints}

\* the calls of the model: theta of three parameters, x = (SoC, T)
AgingModelArgs ==
    {[theta |-> theta, x |-> x, t |-> t, parameter_index |-> index] :
        theta \in [1..3 -> 1..MaxTheta], x \in [1..2 -> 1..MaxTheta],
        t \in TimeArrays, index \in (-1)..MaxParameterIndex}

\* AgingModel.__call__(theta, x)
AgingModelCall ==
    /\ pc = "new"
    /\ kind = "AgingModel"
    /\ result' = [value |-> Calendar_Aging(args.theta, args.x, args.t)]
    /\ pc' = "called"
    /\ UNCHANGED <<test_experiment, metric, kind, args, design, minimizerLog,
                   spread, lastRead>>

\* AgingModel.partial_derivative(theta, x, parameter_index)
AgingModelPartialDerivative ==
    /\ pc = "called"
    /\ kind = "AgingModel"
    /\ result' = [value |-> result.value,
                  derivative |-> partial_derivative_Calendar_Aging(
                      args.theta, args.x, args.t, args.parameter_index)]
    /\ pc' = "differentiated"
    /\ UNCHANGED <<test_experiment, metric, kind, args, design, minimizerLog,
                   spread, lastRead>>

----------------------------------------------------------------------------
(* Specifications *)

Fresh ==
    /\ pc = "new"
    /\ design = <<>>
    /\ minimizerLog = <<>>
    /\ spread = <<>>
    /\ lastRead = [property |-> "none"]
    /\ test_experiment = <<>>
    /\ metric = <<>>
    /\ result = <<>>

Init ==
    /\ \/ kind = "D-opt" /\ args \in DDesignArgs /\ args.minimizer = "single"
       \/ kind = "point prediction" /\ args \in PointPredictionDesignArgs
    /\ Fresh

Next ==
    \/ DDesignInit
    \/ PointPredictionDesignInit
    \/ RecomputeSpread
    \/ ReadName
    \/ ReadExperiment

\* the design constructors with a minimizer that returns some point within
\* its bounds: a heuristic search
Spec == Init /\ [][Next]_vars

InitArgmin ==
    /\ kind = "D-opt" /\ args \in DDesignArgs /\ args.minimizer = "exhaustive"
    /\ Fresh

NextArgmin ==
    \/ DDesignInit
    \/ ReadExperiment

\* DDesign with a minimizer that evaluates every vector within its bounds
SpecArgmin == InitArgmin /\ [][NextArgmin]_vars

InitPi ==
    /\ kind = "pi" /\ args \in PiDesignArgs
    /\ Fresh

NextPi ==
    \/ PiDesignInit
    \/ DrawLatinHypercube

\* the test of the Pi-optimal design, with a minimizer that evaluates every
\* vector within its bounds
SpecPi == InitPi /\ [][NextPi]_vars

InitStd ==
    /\ kind = "Estimated standard deviation of parameter estimations"
    /\ args \in {[estimations_of_parameter |-> e] :
                    e \in UNION {[1..n -> 0..MaxEstimate] : n \in 2..MaxEstimations}}
    /\ Fresh

NextStd == Calculate

\* the metric on every sequence of at least two estimations
SpecStd == InitStd /\ [][NextStd]_vars

InitAging ==
    /\ kind = "AgingModel" /\ args \in AgingModelArgs
    /\ Fresh

NextAging ==
    \/ AgingModelCall
    \/ AgingModelPartialDerivative

\* the aging model called and then differentiated on the same theta and x
SpecAging == InitAging /\ [][NextAging]_vars

----------------------------------------------------------------------------
(* Properties *)

Constructed == pc \in {"constructed", "recomputed"}

PreviousRows == args.previous_experiment.experiment

NumberDesigns == args.number_designs

DesignDimension == Len(args.lower_bounds_design)

\* the flat vector x as number_designs rows of DesignDimension columns
RowMajor(x) ==
    [r \in 1..NumberDesigns |->
        [c \in 1..DesignDimension |-> x[(r - 1) * DesignDimension + c]]]

\* C1: a DDesign built on a previous experiment of p rows with
\* number_designs = n has p + n rows of d columns: the p previous rows in
\* their order, then the n points the minimizer returned; the previous
\* experiment is left as it was.
C1_PreviousRowsThenNewRows ==
    [][(kind = "D-opt" /\ pc = "new" /\ pc' = "constructed") =>
        LET p == Len(PreviousRows)
            returned == minimizerLog'[1].returned
        IN  /\ Len(design') = p + NumberDesigns
            /\ \A r \in 1..(p + NumberDesigns) :
                    Len(design'[r]) = DesignDimension
            /\ \A r \in 1..p : design'[r] = PreviousRows[r]
            /\ \A r \in 1..NumberDesigns : \A c \in 1..DesignDimension :
                    design'[p + r][c] = returned[(r - 1) * DesignDimension + c]
            /\ args'.previous_experiment = args.previous_experiment]_vars

C1_Witness ==
    /\ kind = "D-opt" /\ pc = "constructed"
    /\ DesignDimension = 2 /\ NumberDesigns = 2 /\ Len(PreviousRows) = 1
    /\ design[1] # design[2] /\ design[2] # design[3]

\* C2: the objective DDesign hands to the minimizer is the negated
\* determinant of the Fisher information matrix of the previous rows followed
\* by the candidate points, at initial_theta; with a minimizer that returns
\* an argmin over the vectors within its bounds, no candidate batch gives a
\* larger determinant than DDesign.experiment.
C2_ArgminMaximizesDeterminant ==
    (kind = "D-opt" /\ pc = "constructed" /\ args.minimizer = "exhaustive") =>
        LET log == minimizerLog[1]
            best == DeterminantFIM(args.initial_theta, design)
        IN  /\ DOMAIN log.value = Box(log.lower_bounds, log.upper_bounds)
            /\ \A x \in DOMAIN log.value :
                LET det == DeterminantFIM(args.initial_theta,
                                          Concatenate(PreviousRows, RowMajor(x)))
                IN  /\ log.value[x] = Frac(-det, 1)
                    /\ best >= det

C2_Witness ==
    /\ kind = "D-opt" /\ pc = "constructed" /\ args.minimizer = "exhaustive"
    /\ \E x \in DOMAIN minimizerLog[1].value :
            DeterminantFIM(args.initial_theta,
                           Concatenate(PreviousRows, RowMajor(x)))
                < DeterminantFIM(args.initial_theta, design)

\* C3: whatever points the minimizer returns, the determinant of the Fisher
\* information matrix of DDesign.experiment is no smaller than that of the
\* previous experiment alone.
C3_DeterminantNotBelowPrevious ==
    (kind = "D-opt" /\ pc = "constructed") =>
        DeterminantFIM(args.initial_theta, design)
            >= DeterminantFIM(args.initial_theta, PreviousRows)

C3_Witness ==
    /\ kind = "D-opt" /\ pc = "constructed"
    /\ DeterminantFIM(args.initial_theta, PreviousRows) > 0
    /\ DeterminantFIM(args.initial_theta, design)
            > DeterminantFIM(args.initial_theta, PreviousRows)

\* C4: the n new points are one flat vector of length n * d; component k is
\* bounded by lower_bounds_design[k mod d] and upper_bounds_design[k mod d]
\* and is placed at row k div d, column k mod d, in the objective and in the
\* result; every new row of DDesign.experiment lies within the bounds.
C4_FlatVectorIsRowMajor ==
    (kind = "D-opt" /\ pc = "constructed") =>
        LET log == minimizerLog[1]
            n == NumberDesigns
            d == DesignDimension
            p == Len(PreviousRows)
        IN  /\ Len(log.lower_bounds) = n * d
            /\ Len(log.upper_bounds) = n * d
            /\ Len(log.returned) = n * d
            /\ \A k \in 0..(n * d - 1) :
                /\ log.lower_bounds[k + 1] = args.lower_bounds_design[(k % d) + 1]
                /\ log.upper_bounds[k + 1] = args.upper_bounds_design[(k % d) + 1]
                /\ design[p + (k \div d) + 1][(k % d) + 1] = log.returned[k + 1]
            /\ \A x \in DOMAIN log.value :
                log.value[x] =
                    Frac(-DeterminantFIM(
                              args.initial_theta,
                              [r \in 1..(p + n) |->
                                  IF r <= p
                                  THEN PreviousRows[r]
                                  ELSE [c \in 1..d |-> x[(r - p - 1) * d + c]]]),
                         1)
            /\ \A r \in 1..n : \A c \in 1..d :
                /\ args.lower_bounds_design[c] <= design[p + r][c]
                /\ design[p + r][c] <= args.upper_bounds_design[c]

C4_Witness ==
    /\ kind = "D-opt" /\ pc = "constructed"
    /\ DesignDimension = 2 /\ NumberDesigns = 2
    /\ args.lower_bounds_design = <<0, 1>>
    /\ args.upper_bounds_design = <<0, 1>>

\* C5, as claimed: the spread at the returned point is at least the spread
\* at every other point the minimizer considered, whichever calculate_quantile
\* calls (each with a draw of its own) the spreads come from.
C5_SpreadLargestOnEveryDraw ==
    (kind = "point prediction" /\ Constructed) =>
        \A x \in DOMAIN spread :
            FracLeq(spread[x], spread[minimizerLog[1].returned])

\* C5, amended: the spread computed at the returned point while the minimizer
\* evaluated it is at least the spread computed at every other point while
\* the minimizer evaluated that point.
C5_ObservedSpreadLargest ==
    (kind = "point prediction" /\ pc = "constructed") =>
        \A x \in DOMAIN spread :
            FracLeq(spread[x], spread[minimizerLog[1].returned])

C5_Witness ==
    /\ kind = "point prediction" /\ pc = "constructed"
    /\ \E x \in DOMAIN spread :
        /\ x # minimizerLog[1].returned
        /\ ~FracLeq(spread[minimizerLog[1].returned], spread[x])

\* C6: PointPredictionDesign.experiment is one row of
\* len(lower_bounds_design) columns, within the bounds componentwise.
C6_OnePointWithinBounds ==
    (kind = "point prediction" /\ Constructed) =>
        /\ Len(design) = 1
        /\ Len(design[1]) = DesignDimension
        /\ \A c \in 1..DesignDimension :
            /\ args.lower_bounds_design[c] <= design[1][c]
            /\ design[1][c] <= args.upper_bounds_design[c]

C6_Witness ==
    /\ kind = "point prediction" /\ pc = "constructed"
    /\ DesignDimension = 2
    /\ args.lower_bounds_design[1] < args.upper_bounds_design[1]
    /\ design[1][2] = args.upper_bounds_design[2]

C8_SampleStandardDeviation ==
    pc = "calculated" =>
        LET e == args.estimations_of_parameter
            n == Len(e)
            total == SumSeq(e)
            squares == SumSeq([i \in 1..n |-> e[i] * e[i]])
        IN  /\ metric.squared[2] > 0
            /\ (n - 1) * metric.squared[1] * n
                    = (n * squares - total * total) * metric.squared[2]
            /\ (e = <<0, 0, 0, 2, 2, 2>> =>
                    5 * metric.squared[1] = 6 * metric.squared[2])

C8_Witness ==
    /\ pc = "calculated"
    /\ args.estimations_of_parameter = <<0, 0, 0, 2, 2, 2>>
    /\ 5 * metric.squared[1] = 6 * metric.squared[2]

\* C9: the minimizer is called once, during construction; afterwards no step
\* calls it again or changes the stored design, and every read of the
\* experiment property returns the stored design.
C9_EagerAndImmutable ==
    /\ [](pc = "new" => minimizerLog = <<>>)
    /\ [](Constructed => Len(minimizerLog) = 1)
    /\ [][Constructed =>
            /\ Constructed'
            /\ design' = design
            /\ minimizerLog' = minimizerLog
            /\ (lastRead'.property = "experiment" =>
                    lastRead'.experiment = design)]_vars

C9_Witness ==
    /\ kind = "point prediction" /\ pc = "recomputed"
    /\ lastRead.property = "experiment"
    /\ lastRead.experiment = design

\* C10: a DDesign constructed without a previous experiment (the default,
\* None) is constructed without error and consists of the number_designs
\* optimized points.
C10_PreviousExperimentIsOptional ==
    (kind = "D-opt" /\ args.previous_experiment = None /\ pc # "new") =>
        /\ pc = "constructed"
        /\ Len(design) = NumberDesigns

\* C11: AgingModel.partial_derivative returns a result of the shape of
\* AgingModel(theta, x), one entry per time point in t, for every integer
\* parameter_index it is called with.
C11_DerivativeHasShapeOfValue ==
    pc = "differentiated" =>
        /\ result.derivative.type = "ndarray"
        /\ Len(result.derivative.entries) = Len(result.value.entries)
        /\ Len(result.derivative.entries) = Len(args.t)

====
